---- MODULE Spec2Model ----
(***************************************************************************)
(* State-machine model of the Shopify schema generator (src/src/App.tsx):  *)
(* the field list editor, the two document generators, the project store   *)
(* kept under one localStorage key, and the timer-cleared status messages. *)
(*                                                                         *)
(* Strings are sequences of tokens (a token is one character where the     *)
(* code looks at characters, i.e. in names; a longer literal elsewhere).   *)
(* Array indices are 0-based as in the code; At(s, i) reads s[i].          *)
(***************************************************************************)
EXTENDS Integers, Sequences, FiniteSets, TLC

\* --------------------------------------------------------------- bounds
MaxFields == 2
MaxClock == 2
MaxTimers == 2

\* ------------------------------------------------------------ JS values
\* A JS value of the kinds a field's default/info can hold.  n carries a
\* number (or 0/1 for a boolean), s carries a string.
Undefined == [t |-> "undefined", n |-> 0, s |-> <<>>]
JNull == [t |-> "null", n |-> 0, s |-> <<>>]
HoleMark == [t |-> "hole", n |-> 0, s |-> <<>>]
Num(k) == [t |-> "number", n |-> k, s |-> <<>>]
Bool(b) == [t |-> "boolean", n |-> IF b THEN 1 ELSE 0, s |-> <<>>]
Str(x) == [t |-> "string", n |-> 0, s |-> x]

\* JS truthiness, as used by `field.info && ...`.
Truthy(v) ==
    CASE v.t = "undefined" -> FALSE
      [] v.t = "null" -> FALSE
      [] v.t = "hole" -> FALSE
      [] v.t = "number" -> v.n # 0
      [] v.t = "boolean" -> v.n = 1
      [] v.t = "string" -> v.s # <<>>

\* An array hole (what `newFields[index] = field` leaves below index when
\* index is beyond the length): an element that reads as undefined.
Hole == [type |-> <<>>, id |-> <<>>, label |-> <<>>, default |-> HoleMark, info |-> Undefined]
IsHole(f) == f.default.t = "hole"

At(s, i) == s[i + 1]

\* ------------------------------------------------------------- strings
DEFAULT_PROJECT_NAME ==
    <<"C", "u", "s", "t", "o", "m", " ", "S", "e", "c", "t", "i", "o", "n">>

IsSpace(c) == c \in {" ", "\t"}

toLowerCase(c) ==
    CASE c = "A" -> "a"
      [] c = "B" -> "b"
      [] c = "C" -> "c"
      [] c = "S" -> "s"
      [] OTHER -> c

RECURSIVE DropSpaces(_)
DropSpaces(s) ==
    IF s # <<>> /\ IsSpace(Head(s)) THEN DropSpaces(Tail(s)) ELSE s

\* name.toLowerCase().replace(/\s+/g, '_')
RECURSIVE Handle(_)
Handle(s) ==
    IF s = <<>> THEN <<>>
    ELSE IF IsSpace(Head(s)) THEN <<"_">> \o Handle(DropSpaces(Tail(s)))
    ELSE <<toLowerCase(Head(s))>> \o Handle(Tail(s))

\* decimal rendering of the small numbers used in `field_${n}`
NumStr(n) == <<"0", "1", "2", "3", "4", "5", "6", "7", "8", "9">>[n + 1]

\* ---------------------------------------------------------- JSON objects
\* A serialized object is its sequence of <<key, value>> members in
\* insertion order.
HasKey(obj, k) == \E i \in 1..Len(obj) : obj[i][1] = k
Get(obj, k) == obj[CHOOSE i \in 1..Len(obj) : obj[i][1] = k][2]

\* `t:sections.${handle}.settings.${id}.${leaf}`
TranslationKey(nm, id, leaf) ==
    <<"t:sections.">> \o Handle(nm) \o <<".settings.">> \o id \o <<".", leaf>>

\* one element of schema.settings (App.tsx 82-88)
InfoMember(nm, field) ==
    IF Truthy(field.info)
    THEN << <<"info", Str(TranslationKey(nm, field.id, "info"))>> >>
    ELSE <<>>

\* mutant: presence tested by truthiness instead of `!== undefined`
DefaultMemberIfTruthy(field) ==
    IF Truthy(field.default) THEN << <<"default", field.default>> >> ELSE <<>>

DefaultMember(field) ==
    IF field.default # Undefined THEN << <<"default", field.default>> >> ELSE <<>>

SettingEntry(nm, field) ==
    << <<"type", field.type>>,
       <<"id", field.id>>,
       <<"label", TranslationKey(nm, field.id, "label")>> >>
    \o DefaultMember(field) \o InfoMember(nm, field)

\* The document as JSON.stringify writes it: the members above in order
\* (none of them undefined, so none is dropped or turned into null).
generateSchema(nm, fs) ==
    << <<"name", nm>>,
       <<"settings", [i \in 1..Len(fs) |-> SettingEntry(nm, fs[i])]>> >>

\* one value of locales.sections[handle].settings (App.tsx 100-103)
\* mutant: info copied whenever it is defined, the empty string included
LocaleInfoIfDefined(field) ==
    IF field.info # Undefined THEN << <<"info", field.info>> >> ELSE <<>>

LocaleInfo(field) ==
    IF Truthy(field.info) THEN << <<"info", field.info>> >> ELSE <<>>

LocaleEntry(field) == << <<"label", field.label>> >> \o LocaleInfo(field)

\* { ...acc, [key]: value }: an existing key keeps its place and takes the
\* new value, a new key goes last.
PutKey(obj, k, v) ==
    IF HasKey(obj, k)
    THEN [i \in 1..Len(obj) |-> IF obj[i][1] = k THEN <<k, v>> ELSE obj[i]]
    ELSE Append(obj, <<k, v>>)

RECURSIVE ReduceSettings(_, _)
ReduceSettings(acc, fs) ==
    IF fs = <<>> THEN acc
    ELSE ReduceSettings(PutKey(acc, Head(fs).id, LocaleEntry(Head(fs))), Tail(fs))

generateLocales(nm, fs) ==
    << <<"sections",
         << <<Handle(nm),
              << <<"name", nm>>, <<"settings", ReduceSettings(<<>>, fs)>> >> >> >> >> >>

\* ------------------------------------------------------- serialization
\* JSON.stringify / JSON.parse of the project array.  Members whose value
\* is undefined are left out, an array hole is written as null; parsing
\* gives back objects on which a missing member reads as undefined.
\* (Members are written in one fixed order; the model does not track the
\* insertion order of default and info.)
JsonNull == << <<"#null", JNull>> >>
NullElem == [type |-> <<>>, id |-> <<>>, label |-> <<>>, default |-> JNull, info |-> Undefined]

\* mutant: info written only when it is truthy
StringifyFieldInfoIfTruthy(f) ==
    IF IsHole(f) \/ f = NullElem THEN JsonNull
    ELSE << <<"type", f.type>>, <<"id", f.id>>, <<"label", f.label>> >>
         \o (IF f.default # Undefined THEN << <<"default", f.default>> >> ELSE <<>>)
         \o (IF Truthy(f.info) THEN << <<"info", f.info>> >> ELSE <<>>)

StringifyField(f) ==
    IF IsHole(f) \/ f = NullElem THEN JsonNull
    ELSE << <<"type", f.type>>, <<"id", f.id>>, <<"label", f.label>> >>
         \o (IF f.default # Undefined THEN << <<"default", f.default>> >> ELSE <<>>)
         \o (IF f.info # Undefined THEN << <<"info", f.info>> >> ELSE <<>>)

ParseField(j) ==
    IF j = JsonNull THEN NullElem
    ELSE [type |-> Get(j, "type"), id |-> Get(j, "id"), label |-> Get(j, "label"),
          default |-> IF HasKey(j, "default") THEN Get(j, "default") ELSE Undefined,
          info |-> IF HasKey(j, "info") THEN Get(j, "info") ELSE Undefined]

StringifyProject(p) ==
    << <<"id", p.id>>, <<"name", p.name>>,
       <<"fields", [i \in 1..Len(p.fields) |-> StringifyField(p.fields[i])]>>,
       <<"lastModified", p.lastModified>> >>

ParseProject(j) ==
    [id |-> Get(j, "id"), name |-> Get(j, "name"),
     fields |-> [i \in 1..Len(Get(j, "fields")) |-> ParseField(Get(j, "fields")[i])],
     lastModified |-> Get(j, "lastModified")]

\* The value held under the key 'shopifySchemaProjects': absent, or a text
\* that is the empty string, not JSON at all, JSON but no array, or the
\* serialization of an array of projects.
Absent == [kind |-> "absent", json |-> <<>>]
EmptyText == [kind |-> "empty", json |-> <<>>]
MalformedText == [kind |-> "malformed", json |-> <<>>]
ScalarText == [kind |-> "scalar", json |-> <<>>]

JSONstringify(ps) ==
    [kind |-> "array", json |-> [i \in 1..Len(ps) |-> StringifyProject(ps[i])]]

JSONparse(text) == [i \in 1..Len(text.json) |-> ParseProject(text.json[i])]

\* ------------------------------------------------------------------ state
Tabs == {1, 2}

VARIABLES
    status,         \* per tab: "closed", "running", "crashed" (uncaught throw
                    \* in the mount effect), "corrupt" (projects is no array)
    name,           \* per tab: useState name
    fields,         \* per tab: useState fields
    projects,       \* per tab: useState projects
    copiedSchema,   \* per tab: useState copiedSchema
    copiedLocales,  \* per tab: useState copiedLocales
    saveMessage,    \* per tab: useState saveMessage
    timers,         \* per tab: pending setTimeout callbacks, oldest first,
                    \* each named by the flag it clears (all delays are 2000)
    storage,        \* localStorage['shopifySchemaProjects'], shared by tabs
    clipboard,      \* last text given to navigator.clipboard.writeText
    clock,          \* new Date(), advancing with every save
    lastOp          \* history: the field-list call made last and its index
                    \* (kept only by the specification of the bare calls)

vars == <<status, name, fields, projects, copiedSchema, copiedLocales,
          saveMessage, timers, storage, clipboard, clock, lastOp>>

NoText == <<>>
SavedText == <<"Project saved successfully!">>
StartedText == <<"Started new project">>

Op(o, a) == [op |-> o, arg |-> a]

\* pending clears (App.tsx 114, 122, 148)
Schedule(t, flag) == timers' = [timers EXCEPT ![t] = Append(@, flag)]
CanSchedule(t) == Len(timers[t]) < MaxTimers

Running(t) == status[t] = "running"

\* ---------------------------------------------------------------- mount
\* A page load: fresh useState values (App.tsx 43-49), then the effect
\* (App.tsx 51-56).
Mount(t) ==
    /\ name' = [name EXCEPT ![t] = DEFAULT_PROJECT_NAME]
    /\ fields' = [fields EXCEPT ![t] = <<>>]
    /\ copiedSchema' = [copiedSchema EXCEPT ![t] = FALSE]
    /\ copiedLocales' = [copiedLocales EXCEPT ![t] = FALSE]
    /\ saveMessage' = [saveMessage EXCEPT ![t] = NoText]
    /\ timers' = [timers EXCEPT ![t] = <<>>]
    /\ IF storage.kind \in {"absent", "empty"}
       THEN /\ projects' = [projects EXCEPT ![t] = <<>>]
            /\ status' = [status EXCEPT ![t] = "running"]
       ELSE IF storage.kind = "malformed"
       THEN /\ projects' = [projects EXCEPT ![t] = <<>>]
            /\ status' = [status EXCEPT ![t] = "crashed"]
       ELSE IF storage.kind = "scalar"
       THEN /\ projects' = [projects EXCEPT ![t] = <<>>]
            /\ status' = [status EXCEPT ![t] = "corrupt"]
       ELSE /\ projects' = [projects EXCEPT ![t] = JSONparse(storage)]
            /\ status' = [status EXCEPT ![t] = "running"]
    /\ UNCHANGED <<storage, clipboard, clock>>

\* ----------------------------------------------------------- field list
NewField(n) ==
    [type |-> <<"text">>, id |-> <<"field_", NumStr(n)>>,
     label |-> <<"Field ", NumStr(n)>>, default |-> Undefined, info |-> Undefined]

addField(t) ==
    /\ Running(t)
    /\ Len(fields[t]) < MaxFields
    /\ fields' = [fields EXCEPT ![t] = Append(@, NewField(Len(@) + 1))]
    /\ UNCHANGED <<status, name, projects, copiedSchema, copiedLocales,
                   saveMessage, timers, storage, clipboard, clock>>

\* fields.filter((_, i) => i !== index)
Without(fs, index) ==
    IF index \in 0..(Len(fs) - 1)
    THEN [j \in 1..(Len(fs) - 1) |-> IF j <= index THEN fs[j] ELSE fs[j + 1]]
    ELSE fs

removeField(t, index) ==
    /\ Running(t)
    /\ fields' = [fields EXCEPT ![t] = Without(@, index)]
    /\ UNCHANGED <<status, name, projects, copiedSchema, copiedLocales,
                   saveMessage, timers, storage, clipboard, clock>>

\* const newFields = [...fields]; newFields[index] = field
\* An index at or beyond the length extends the array, leaving holes below
\* it; a negative index sets a property that is no element.
Assigned(fs, index, field) ==
    IF index < 0 THEN fs
    ELSE [j \in 1..(IF index + 1 > Len(fs) THEN index + 1 ELSE Len(fs)) |->
            IF j = index + 1 THEN field
            ELSE IF j <= Len(fs) THEN fs[j] ELSE Hole]

updateField(t, index, field) ==
    /\ Running(t)
    /\ fields' = [fields EXCEPT ![t] = Assigned(@, index, field)]
    /\ UNCHANGED <<status, name, projects, copiedSchema, copiedLocales,
                   saveMessage, timers, storage, clipboard, clock>>

\* onChange={(e) => setName(e.target.value)} (App.tsx 286)
setName(t, nm) ==
    /\ Running(t)
    /\ name' = [name EXCEPT ![t] = nm]
    /\ UNCHANGED <<status, fields, projects, copiedSchema, copiedLocales,
                   saveMessage, timers, storage, clipboard, clock>>

\* ------------------------------------------------------- status messages
\* copyToClipboard(generateSchema(), setCopiedSchema) (App.tsx 111-115, 412)
copySchema(t) ==
    /\ Running(t)
    /\ CanSchedule(t)
    /\ clipboard' = generateSchema(name[t], fields[t])
    /\ copiedSchema' = [copiedSchema EXCEPT ![t] = TRUE]
    /\ Schedule(t, "copiedSchema")
    /\ UNCHANGED <<status, name, fields, projects, copiedLocales, saveMessage,
                   storage, clock>>

\* copyToClipboard(generateLocales(), setCopiedLocales) (App.tsx 111-115, 437)
copyLocales(t) ==
    /\ Running(t)
    /\ CanSchedule(t)
    /\ clipboard' = generateLocales(name[t], fields[t])
    /\ copiedLocales' = [copiedLocales EXCEPT ![t] = TRUE]
    /\ Schedule(t, "copiedLocales")
    /\ UNCHANGED <<status, name, fields, projects, copiedSchema, saveMessage,
                   storage, clock>>

\* whether the message a flag stands for is on display
Displayed(t, flag) ==
    CASE flag = "copiedSchema" -> copiedSchema[t]
      [] flag = "copiedLocales" -> copiedLocales[t]
      [] flag = "saveMessage" -> saveMessage[t] # NoText

\* the oldest pending callback runs: () => setCopied(false) or
\* () => setSaveMessage('')
Timeout(t) ==
    /\ Running(t)
    /\ timers[t] # <<>>
    /\ timers' = [timers EXCEPT ![t] = Tail(@)]
    /\ copiedSchema' = IF Head(timers[t]) = "copiedSchema"
                       THEN [copiedSchema EXCEPT ![t] = FALSE] ELSE copiedSchema
    /\ copiedLocales' = IF Head(timers[t]) = "copiedLocales"
                        THEN [copiedLocales EXCEPT ![t] = FALSE] ELSE copiedLocales
    /\ saveMessage' = IF Head(timers[t]) = "saveMessage"
                      THEN [saveMessage EXCEPT ![t] = NoText] ELSE saveMessage
    /\ UNCHANGED <<status, name, fields, projects, storage, clipboard, clock>>

\* --------------------------------------------------------------- projects
createNewProject(t) ==
    /\ Running(t)
    /\ CanSchedule(t)
    /\ name' = [name EXCEPT ![t] = DEFAULT_PROJECT_NAME]
    /\ fields' = [fields EXCEPT ![t] = <<>>]
    /\ saveMessage' = [saveMessage EXCEPT ![t] = StartedText]
    /\ Schedule(t, "saveMessage")
    /\ UNCHANGED <<status, projects, copiedSchema, copiedLocales, storage,
                   clipboard, clock>>

Project(nm, fs, now) ==
    [id |-> Handle(nm), name |-> nm, fields |-> fs, lastModified |-> now]

\* mutant: entries matched by name instead of id
findIndexByName(ps, projectId) ==
    IF \E i \in 1..Len(ps) : ps[i].name = projectId
    THEN (CHOOSE i \in 1..Len(ps) :
            /\ ps[i].name = projectId
            /\ \A j \in 1..(i - 1) : ps[j].name # projectId) - 1
    ELSE -1

\* projects.findIndex(p => p.id === projectId)
findIndex(ps, projectId) ==
    IF \E i \in 1..Len(ps) : ps[i].id = projectId
    THEN (CHOOSE i \in 1..Len(ps) :
            /\ ps[i].id = projectId
            /\ \A j \in 1..(i - 1) : ps[j].id # projectId) - 1
    ELSE -1

\* mutant: the new project always appended
AlwaysAppended(ps, newProject) == Append(ps, newProject)

\* App.tsx 134-142
Saved(ps, newProject) ==
    IF findIndex(ps, newProject.id) >= 0
    THEN [ps EXCEPT ![findIndex(ps, newProject.id) + 1] = newProject]
    ELSE Append(ps, newProject)

\* mutant: the save starts from the list under the storage key, not from
\* the tab's own
saveProjectRereading(t) ==
    /\ Running(t)
    /\ CanSchedule(t)
    /\ clock < MaxClock
    /\ clock' = clock + 1
    /\ projects' = [projects EXCEPT
                      ![t] = Saved(IF storage.kind = "array" THEN JSONparse(storage) ELSE <<>>,
                                   Project(name[t], fields[t], clock'))]
    /\ storage' = JSONstringify(projects'[t])
    /\ saveMessage' = [saveMessage EXCEPT ![t] = SavedText]
    /\ Schedule(t, "saveMessage")
    /\ UNCHANGED <<status, name, fields, copiedSchema, copiedLocales, clipboard>>

saveProject(t) ==
    /\ Running(t)
    /\ CanSchedule(t)
    /\ clock < MaxClock
    /\ clock' = clock + 1
    /\ projects' = [projects EXCEPT
                      ![t] = Saved(@, Project(name[t], fields[t], clock'))]
    /\ storage' = JSONstringify(projects'[t])
    /\ saveMessage' = [saveMessage EXCEPT ![t] = SavedText]
    /\ Schedule(t, "saveMessage")
    /\ UNCHANGED <<status, name, fields, copiedSchema, copiedLocales, clipboard>>

\* onClick={() => loadProject(project)} on a listed project (App.tsx 255)
loadProject(t, i) ==
    /\ Running(t)
    /\ i \in 0..(Len(projects[t]) - 1)
    /\ name' = [name EXCEPT ![t] = At(projects[t], i).name]
    /\ fields' = [fields EXCEPT ![t] = At(projects[t], i).fields]
    /\ UNCHANGED <<status, projects, copiedSchema, copiedLocales, saveMessage,
                   timers, storage, clipboard, clock>>

\* projects.filter(p => p.id !== projectId)
RECURSIVE Filtered(_, _)
Filtered(ps, projectId) ==
    IF ps = <<>> THEN <<>>
    ELSE IF Head(ps).id # projectId
    THEN <<Head(ps)>> \o Filtered(Tail(ps), projectId)
    ELSE Filtered(Tail(ps), projectId)

\* mutant: the list is filtered in memory and not written back
deleteProjectInMemory(t, i) ==
    /\ Running(t)
    /\ i \in 0..(Len(projects[t]) - 1)
    /\ projects' = [projects EXCEPT ![t] = Filtered(@, At(@, i).id)]
    /\ UNCHANGED <<status, name, fields, copiedSchema, copiedLocales,
                   saveMessage, timers, storage, clipboard, clock>>

\* onClick={() => deleteProject(project.id)} on the i-th listed project
\* (App.tsx 261)
deleteProject(t, i) ==
    /\ Running(t)
    /\ i \in 0..(Len(projects[t]) - 1)
    /\ projects' = [projects EXCEPT ![t] = Filtered(@, At(@, i).id)]
    /\ storage' = JSONstringify(projects'[t])
    /\ UNCHANGED <<status, name, fields, copiedSchema, copiedLocales,
                   saveMessage, timers, clipboard, clock>>

\* ------------------------------------------------------------ input sets
\* names typed into the name box: case variants and a whitespace run
Names == { <<"a">>, <<"A">>, <<"a", " ", "\t", "b">> }

\* field values the editor's inputs produce through updateField
TitleField ==
    [type |-> <<"text">>, id |-> <<"title">>, label |-> <<"Title">>,
     default |-> Str(<<"x">>), info |-> Str(<<"help">>)]
ClearedField ==
    [type |-> <<"number">>, id |-> <<"field_", "1">>, label |-> <<"Field ", "1">>,
     default |-> Str(<<>>), info |-> Str(<<>>)]
InfoOnlyField ==
    [type |-> <<"text">>, id |-> <<"title">>, label |-> <<"Other">>,
     default |-> Undefined, info |-> Str(<<"help">>)]

\* every field value over a small vocabulary: two ids, defaults undefined,
\* falsy and truthy, info undefined, empty and non-empty
FieldValues ==
    [type : {<<"text">>}, id : {<<"a">>, <<"b">>}, label : {<<"L">>},
     default : {Undefined, Num(0), Bool(FALSE), Str(<<>>), Str(<<"x">>)},
     info : {Undefined, Str(<<>>), Str(<<"help">>)}]

SeqsUpTo(S, n) == UNION {[1..k -> S] : k \in 0..n}

\* what an earlier session left under the storage key
Earlier1 == Project(<<"A">>, <<>>, 0)
Earlier2 == Project(<<"a", " ", "b">>, <<TitleField>>, 0)
EarlierStore == JSONstringify(<<Earlier2, Earlier1>>)

\* no tab open yet
Closed ==
    /\ status = [t \in Tabs |-> "closed"]
    /\ name = [t \in Tabs |-> DEFAULT_PROJECT_NAME]
    /\ fields = [t \in Tabs |-> <<>>]
    /\ projects = [t \in Tabs |-> <<>>]
    /\ copiedSchema = [t \in Tabs |-> FALSE]
    /\ copiedLocales = [t \in Tabs |-> FALSE]
    /\ saveMessage = [t \in Tabs |-> NoText]
    /\ timers = [t \in Tabs |-> <<>>]
    /\ clipboard = <<>>
    /\ clock = 0
    /\ lastOp = Op("init", 0)

\* no clear pending: the user let the last status message go away
Quiet(t) == timers[t] = <<>>

\* ------------------------------------------------------- specifications
\* Spec: one tab over a store that is absent or was written by an earlier
\* session.  Its user lets a status message clear before acting again and
\* keeps at most one field in the editor (SpecTimers and SpecStore lift the
\* two restrictions).
Init ==
    /\ Closed
    /\ storage \in {Absent, EarlierStore}

Next ==
    \/ Timeout(1) /\ UNCHANGED lastOp
    \/ Quiet(1) /\ Mount(1) /\ UNCHANGED lastOp
    \/ Quiet(1) /\ fields[1] = <<>> /\ addField(1) /\ UNCHANGED lastOp
    \/ \E i \in 0..(Len(fields[1]) - 1) :
         Quiet(1) /\ removeField(1, i) /\ UNCHANGED lastOp
    \/ \E i \in 0..(Len(fields[1]) - 1) :
         Quiet(1) /\ updateField(1, i, TitleField) /\ UNCHANGED lastOp
    \/ \E nm \in Names : Quiet(1) /\ setName(1, nm) /\ UNCHANGED lastOp
    \/ Quiet(1) /\ createNewProject(1) /\ UNCHANGED lastOp
    \/ Quiet(1) /\ saveProject(1) /\ UNCHANGED lastOp
    \/ \E i \in 0..(Len(projects[1]) - 1) :
         Quiet(1) /\ loadProject(1, i) /\ UNCHANGED lastOp
    \/ \E i \in 0..(Len(projects[1]) - 1) :
         Quiet(1) /\ deleteProject(1, i) /\ UNCHANGED lastOp

Spec == Init /\ [][Next]_vars

\* SpecStore: one tab whose editor already holds any name and any list of up
\* to MaxFields fields; projects are saved, reopened and the page reloaded.
StoreFields == {NewField(1), TitleField, ClearedField, InfoOnlyField}

InitStore ==
    /\ storage \in {Absent, EarlierStore}
    /\ status = [t \in Tabs |-> IF t = 1 THEN "running" ELSE "closed"]
    /\ name = [t \in Tabs |-> DEFAULT_PROJECT_NAME]
    /\ \E fs \in SeqsUpTo(StoreFields, MaxFields) :
         fields = [t \in Tabs |-> IF t = 1 THEN fs ELSE <<>>]
    /\ projects = [t \in Tabs |->
                     IF t = 1 /\ storage.kind = "array"
                     THEN JSONparse(storage) ELSE <<>>]
    /\ copiedSchema = [t \in Tabs |-> FALSE]
    /\ copiedLocales = [t \in Tabs |-> FALSE]
    /\ saveMessage = [t \in Tabs |-> NoText]
    /\ timers = [t \in Tabs |-> <<>>]
    /\ clipboard = <<>>
    /\ clock = 0
    /\ lastOp = Op("init", 0)

NextStore ==
    \/ Timeout(1) /\ UNCHANGED lastOp
    \/ Quiet(1) /\ Mount(1) /\ UNCHANGED lastOp
    \/ \E nm \in Names : Quiet(1) /\ setName(1, nm) /\ UNCHANGED lastOp
    \/ Quiet(1) /\ saveProject(1) /\ UNCHANGED lastOp
    \/ \E i \in 0..(Len(projects[1]) - 1) :
         Quiet(1) /\ loadProject(1, i) /\ UNCHANGED lastOp

SpecStore == InitStore /\ [][NextStore]_vars

\* SpecGen: the generators applied (through the two copy buttons) to any list
\* of up to MaxFields field values.
InitGen ==
    /\ status = [t \in Tabs |-> IF t = 1 THEN "running" ELSE "closed"]
    /\ name = [t \in Tabs |-> DEFAULT_PROJECT_NAME]
    /\ \E fs \in SeqsUpTo(FieldValues, MaxFields) :
         fields = [t \in Tabs |-> IF t = 1 THEN fs ELSE <<>>]
    /\ projects = [t \in Tabs |-> <<>>]
    /\ copiedSchema = [t \in Tabs |-> FALSE]
    /\ copiedLocales = [t \in Tabs |-> FALSE]
    /\ saveMessage = [t \in Tabs |-> NoText]
    /\ timers = [t \in Tabs |-> <<>>]
    /\ clipboard = <<>>
    /\ clock = 0
    /\ lastOp = Op("init", 0)
    /\ storage = Absent

NextGen ==
    \/ Timeout(1) /\ UNCHANGED lastOp
    \/ Quiet(1) /\ copySchema(1) /\ UNCHANGED lastOp
    \/ Quiet(1) /\ copyLocales(1) /\ UNCHANGED lastOp

SpecGen == InitGen /\ [][NextGen]_vars

\* SpecApi: the three field-list operations called with any index, in range
\* or not, on lists of up to MaxFields fields; lastOp keeps the call.
ApiIndices == (-2)..(MaxFields + 1)

InitApi ==
    /\ status = [t \in Tabs |-> IF t = 1 THEN "running" ELSE "closed"]
    /\ name = [t \in Tabs |-> DEFAULT_PROJECT_NAME]
    /\ fields = [t \in Tabs |-> <<>>]
    /\ projects = [t \in Tabs |-> <<>>]
    /\ copiedSchema = [t \in Tabs |-> FALSE]
    /\ copiedLocales = [t \in Tabs |-> FALSE]
    /\ saveMessage = [t \in Tabs |-> NoText]
    /\ timers = [t \in Tabs |-> <<>>]
    /\ clipboard = <<>>
    /\ clock = 0
    /\ lastOp = Op("init", 0)
    /\ storage = Absent

NextApi ==
    \/ addField(1) /\ lastOp' = Op("addField", 0)
    \/ \E i \in ApiIndices : removeField(1, i) /\ lastOp' = Op("removeField", i)
    \/ \E i \in ApiIndices : \E f \in {TitleField, ClearedField} :
         /\ Len(fields[1]) <= MaxFields
         /\ updateField(1, i, f)
         /\ lastOp' = Op("updateField", i)

SpecApi == InitApi /\ [][NextApi]_vars

\* SpecTimers: one tab in which the copy, new-project and save buttons are
\* pressed at any spacing in time, up to MaxTimers clears pending; lastOp
\* tells a timer callback from a handler.
InitTimers ==
    /\ Closed
    /\ storage = Absent

NextTimers ==
    \/ Timeout(1) /\ lastOp' = Op("timeout", 0)
    \/ Mount(1) /\ lastOp' = Op("mount", 0)
    \/ copySchema(1) /\ lastOp' = Op("copySchema", 0)
    \/ copyLocales(1) /\ lastOp' = Op("copyLocales", 0)
    \/ createNewProject(1) /\ lastOp' = Op("createNewProject", 0)
    \/ saveProject(1) /\ lastOp' = Op("saveProject", 0)

SpecTimers == InitTimers /\ [][NextTimers]_vars

\* SpecTabs: two tabs, both mounted over the same store and neither reloaded
\* afterwards; each user types names of their own.  lastOp keeps the last
\* write to the store and the tab that made it.
TabNames == << {<<"a">>, <<"A">>}, {<<"b">>, <<"a", " ", "\t", "b">>} >>

InitTabs ==
    /\ storage \in {Absent, EarlierStore}
    /\ status = [t \in Tabs |-> "running"]
    /\ name = [t \in Tabs |-> DEFAULT_PROJECT_NAME]
    /\ fields = [t \in Tabs |-> <<>>]
    /\ projects = [t \in Tabs |->
                     IF storage.kind = "array" THEN JSONparse(storage) ELSE <<>>]
    /\ copiedSchema = [t \in Tabs |-> FALSE]
    /\ copiedLocales = [t \in Tabs |-> FALSE]
    /\ saveMessage = [t \in Tabs |-> NoText]
    /\ timers = [t \in Tabs |-> <<>>]
    /\ clipboard = <<>>
    /\ clock = 0
    /\ lastOp = Op("init", 0)

NextTabs ==
    \/ \E t \in Tabs : Timeout(t) /\ UNCHANGED lastOp
    \/ \E t \in Tabs : \E nm \in TabNames[t] :
         Quiet(t) /\ setName(t, nm) /\ UNCHANGED lastOp
    \/ \E t \in Tabs : Quiet(t) /\ saveProject(t) /\ lastOp' = Op("saveProject", t)
    \/ \E t \in Tabs : \E i \in 0..(Len(projects[t]) - 1) :
         Quiet(t) /\ deleteProject(t, i) /\ lastOp' = Op("deleteProject", t)

SpecTabs == InitTabs /\ [][NextTabs]_vars

\* SpecLoad: one tab mounted over whatever the storage key may hold.
InitLoad ==
    /\ Closed
    /\ storage \in {Absent, EmptyText, MalformedText, ScalarText, EarlierStore}

NextLoad ==
    \/ Timeout(1) /\ UNCHANGED lastOp
    \/ Quiet(1) /\ Mount(1) /\ UNCHANGED lastOp
    \/ \E nm \in Names : Quiet(1) /\ setName(1, nm) /\ UNCHANGED lastOp
    \/ Quiet(1) /\ saveProject(1) /\ UNCHANGED lastOp
    \/ \E i \in 0..(Len(projects[1]) - 1) :
         Quiet(1) /\ deleteProject(1, i) /\ UNCHANGED lastOp

SpecLoad == InitLoad /\ [][NextLoad]_vars

\* ------------------------------------------------------------- claims
SaveStep == clock' = clock + 1

\* the project saveProject builds from tab 1's editor (App.tsx 126-132),
\* lastModified left aside
IsNewProject(p) ==
    /\ p.id = Handle(name[1])
    /\ p.name = name[1]
    /\ p.fields = fields[1]

\* C1: a save whose id (the handle of the current name) is already in the
\* project list replaces the entry at that position and leaves every other
\* entry, the order and the length unchanged; otherwise it appends the new
\* project and the list grows by exactly one.  Either way the storage key
\* then holds the whole resulting array.
C1_SaveReplacesOrAppends ==
    [][SaveStep =>
        LET ps == projects[1]
            qs == projects'[1]
            hit == {i \in 1..Len(ps) : ps[i].id = Handle(name[1])}
        IN  /\ hit # {} =>
                /\ Len(qs) = Len(ps)
                /\ \E pos \in hit :
                     /\ \A i \in hit : pos <= i
                     /\ IsNewProject(qs[pos])
                     /\ qs[pos].lastModified = clock'
                     /\ \A i \in 1..Len(ps) : i # pos => qs[i] = ps[i]
            /\ hit = {} =>
                /\ Len(qs) = Len(ps) + 1
                /\ IsNewProject(qs[Len(qs)])
                /\ qs[Len(qs)].lastModified = clock'
                /\ \A i \in 1..Len(ps) : qs[i] = ps[i]
            /\ storage'.kind = "array"
            /\ JSONparse(storage') = qs]_vars

\* an entry saved in this session stands before an entry stored earlier:
\* it was replaced in place
C1_Witness ==
    /\ status[1] = "running"
    /\ \E i \in 1..(Len(projects[1]) - 1) :
         projects[1][i].lastModified > projects[1][i + 1].lastModified
    /\ JSONparse(storage) = projects[1]

\* C2 as stated: with an entry saved under a name N1 in the list, a save under
\* any different name N2 makes the list one longer, the new last entry carrying
\* N2, and leaves N1's entry unchanged.
C2_Original ==
    [][SaveStep =>
        LET ps == projects[1]
            qs == projects'[1]
        IN  \A i \in 1..Len(ps) :
              ps[i].name # name[1] =>
                /\ Len(qs) = Len(ps) + 1
                /\ qs[Len(qs)].name = name[1]
                /\ qs[i] = ps[i]]_vars

\* C2 amended: with an entry saved under N1 in the list, a save under a
\* different name N2 appends an entry carrying N2 exactly when no entry has
\* the handle of N2 as its id; it leaves N1's entry unchanged exactly when the
\* handles of N1 and N2 differ; when the handle of N2 is the id of an entry
\* (N1's, if the names differ only in case or whitespace), that entry is
\* overwritten in place and the length is unchanged.
C2_RenameAppendsUnlessHandleTaken ==
    [][SaveStep =>
        LET ps == projects[1]
            qs == projects'[1]
            taken == \E j \in 1..Len(ps) : ps[j].id = Handle(name[1])
        IN  \A i \in 1..Len(ps) :
              ps[i].name # name[1] =>
                /\ ~taken => /\ Len(qs) = Len(ps) + 1
                             /\ qs[Len(qs)].name = name[1]
                /\ taken => /\ Len(qs) = Len(ps)
                            /\ \E j \in 1..Len(qs) : /\ qs[j].name = name[1]
                                                     /\ ps[j].id = Handle(name[1])
                /\ (qs[i] = ps[i]) <=> (ps[i].id # Handle(name[1]))]_vars

\* two saves of this session under names with different handles: the second
\* was appended behind the first
C2_Witness ==
    /\ status[1] = "running"
    /\ \E i \in 1..(Len(projects[1]) - 1) :
         /\ projects[1][i].lastModified >= 1
         /\ projects[1][Len(projects[1])].lastModified > projects[1][i].lastModified
         /\ projects[1][i].name # projects[1][Len(projects[1])].name

C3_Original ==
    [][(/\ lastOp'.op \in {"removeField", "updateField"}
        /\ lastOp'.arg \notin 0..(Len(fields[1]) - 1))
       => fields'[1] = fields[1]]_vars

\* C4 as stated: while the storage key is absent or holds anything but a
\* serialized array, a mounted tab has not faulted and its project list is
\* the empty list.
C4_Original ==
    (status[1] # "closed" /\ storage.kind # "array")
        => (status[1] = "running" /\ projects[1] = <<>>)

\* C5: right after saveProject with name N and field list F, re-reading the
\* storage key gives a project list with an entry whose name is N, whose
\* fields equal F element by element in order, and whose id is the handle of
\* N; a reload (the only step of SpecStore that changes the list without a
\* save) then holds exactly the list read back.
C5_SaveRoundTrip ==
    [][(SaveStep =>
          /\ storage'.kind = "array"
          /\ \E i \in 1..Len(JSONparse(storage')) :
               LET p == JSONparse(storage')[i]
               IN  /\ p.name = name[1]
                   /\ p.id = Handle(name[1])
                   /\ Len(p.fields) = Len(fields[1])
                   /\ \A k \in 1..Len(fields[1]) : p.fields[k] = fields[1][k])
       /\ ((clock' = clock /\ projects'[1] # projects[1])
           => (storage.kind = "array" /\ projects'[1] = JSONparse(storage)))]_vars

\* after a reload the list read back holds the project saved last, with two
\* different fields in their order, an empty info among them
C5_Witness ==
    /\ status[1] = "running"
    /\ fields[1] = <<>>
    /\ projects[1] = JSONparse(storage)
    /\ \E i \in 1..Len(projects[1]) :
         /\ projects[1][i].lastModified = clock
         /\ clock >= 1
         /\ projects[1][i].fields = <<ClearedField, TitleField>>
         /\ projects[1][i].id = Handle(projects[1][i].name)

InfoNonEmpty(f) == f.info.t = "string" /\ f.info.s # <<>>

\* the document a copy button put on the clipboard, told by its first key
IsSchema(doc) == doc # <<>> /\ doc[1][1] = "name"
IsLocales(doc) == doc # <<>> /\ doc[1][1] = "sections"
SchemaSettings == Get(clipboard, "settings")
LocaleSettings ==
    Get(Get(Get(clipboard, "sections"), Handle(name[1])), "settings")

\* C6 as stated: for every field of the list, duplicate ids included, the
\* schema entry of the field and the locale entry under the field's id have
\* an info key exactly when the field's info is a non-empty string.
C6_Original ==
    /\ IsSchema(clipboard) =>
         \A i \in 1..Len(fields[1]) :
            HasKey(SchemaSettings[i], "info") <=> InfoNonEmpty(fields[1][i])
    /\ IsLocales(clipboard) =>
         \A i \in 1..Len(fields[1]) :
            HasKey(Get(LocaleSettings, fields[1][i].id), "info")
              <=> InfoNonEmpty(fields[1][i])

\* C6 amended: the schema entry of every field has an info key exactly when
\* that field's info is a non-empty string; the locale entry under an id has
\* an info key exactly when the last field of the list with that id has a
\* non-empty info (so the statement about the locale entry holds for every
\* field that is the last one with its id, and for every field when ids are
\* distinct).
C6_InfoKeyPresence ==
    /\ IsSchema(clipboard) =>
         /\ Len(SchemaSettings) = Len(fields[1])
         /\ \A i \in 1..Len(fields[1]) :
              HasKey(SchemaSettings[i], "info") <=> InfoNonEmpty(fields[1][i])
    /\ IsLocales(clipboard) =>
         \A i \in 1..Len(fields[1]) :
            /\ HasKey(LocaleSettings, fields[1][i].id)
            /\ (\A j \in (i + 1)..Len(fields[1]) :
                  fields[1][j].id # fields[1][i].id)
                 => (HasKey(Get(LocaleSettings, fields[1][i].id), "info")
                       <=> InfoNonEmpty(fields[1][i]))

\* the locale document was copied for two fields sharing an id, the first
\* with an info text and the second with an empty one
C6_Witness ==
    /\ IsLocales(clipboard)
    /\ Len(fields[1]) = 2
    /\ fields[1][1].id = fields[1][2].id
    /\ InfoNonEmpty(fields[1][1])
    /\ fields[1][2].info = Str(<<>>)

\* C7: the schema entry of a field has the default key, with the field's
\* value as it is, whenever the field's default is defined (0, false and the
\* empty string included), and has no default key when it is undefined; null
\* is never written.
C7_DefaultKeyPresence ==
    IsSchema(clipboard) =>
        \A i \in 1..Len(fields[1]) :
            LET f == fields[1][i]
                e == SchemaSettings[i]
            IN  /\ f.default # Undefined =>
                    HasKey(e, "default") /\ Get(e, "default") = f.default
                /\ f.default = Undefined => ~HasKey(e, "default")
                /\ \A k \in 1..Len(e) : e[k][1] = "default" => e[k][2] # JNull

\* the schema document was copied for a list holding the defaults 0 and false
C7_Witness ==
    /\ IsSchema(clipboard)
    /\ \E i, j \in 1..Len(fields[1]) :
         /\ fields[1][i].default = Num(0)
         /\ fields[1][j].default = Bool(FALSE)

\* C8 as stated: a timer callback that removes a displayed message is the
\* clear scheduled by the action that set that message, i.e. no later clear
\* for the same flag is still pending behind it.
C8_Original ==
    [][(lastOp'.op = "timeout" /\ Displayed(1, Head(timers[1])))
       => \A k \in 2..Len(timers[1]) : timers[1][k] # Head(timers[1])]_vars

Ids(ps) == {ps[i].id : i \in 1..Len(ps)}
Other(t) == CHOOSE u \in Tabs : u # t

\* C9: last writer wins, silently.  After a save or delete by one tab the
\* storage key holds that tab's list and nothing else: no project the other
\* tab saved since both mounted is in it, and neither tab has faulted.
C9_LastWriterWins ==
    lastOp.op \in {"saveProject", "deleteProject"} =>
        /\ storage.kind = "array"
        /\ JSONparse(storage) = projects[lastOp.arg]
        /\ \A i \in 1..Len(storage.json) :
             JSONparse(storage)[i].lastModified >= 1
               => JSONparse(storage)[i].name \notin TabNames[Other(lastOp.arg)]
        /\ \A t \in Tabs : status[t] = "running"

\* tab 1 saved a project under a name of its own, tab 2 wrote last, and the
\* project is in tab 1's list but no longer under the storage key
C9_Witness ==
    /\ lastOp.arg = 2
    /\ lastOp.op \in {"saveProject", "deleteProject"}
    /\ \A t \in Tabs : status[t] = "running"
    /\ \E i \in 1..Len(projects[1]) :
         /\ projects[1][i].lastModified >= 1
         /\ projects[1][i].name \in TabNames[1]
         /\ projects[1][i].id \notin Ids(JSONparse(storage))

====
